---- MODULE Spec2Model ----
(***************************************************************************)
(* Model of the Faster-Whisper speech recognition service                  *)
(* (src/whisper-service/main.py): the process-wide model handle, the       *)
(* health check, and the two request handlers transcribe_audio             *)
(* (POST /transcribe) and transcribe_realtime (POST /transcribe-realtime). *)
(*                                                                         *)
(* Each request is a task with a program counter.  The handlers are        *)
(* coroutines; the model lets requests interleave at every statement       *)
(* boundary, which covers the single event loop (where they interleave     *)
(* only at `await audio_file.read()`) and a multi-worker deployment.       *)
(*                                                                         *)
(* Floating point values are modelled as exact rationals [num, den];       *)
(* strings that the code inspects (content types, segment texts) are       *)
(* sequences of one-character strings.                                     *)
(***************************************************************************)
EXTENDS Integers, Sequences, FiniteSets, TLC

(***************************************************************************)
(* Bounds of the model                                                     *)
(***************************************************************************)
NReq == 2          \* number of requests in one behaviour
MaxNames == 2      \* size of the temporary-name space
MaxSegs == 3       \* longest segment stream of the aggregation model
ConcMaxSegs == 2   \* longest segment stream of the concurrent model

Reqs == 1..NReq
Names == 1..MaxNames

(***************************************************************************)
(* Program constants                                                       *)
(***************************************************************************)
LogprobOffset == 5     \* (avg_confidence + 5) / 5
LogprobScale == 5

None == "None"
WhisperModel == "WhisperModel"
NoName == 0

(***************************************************************************)
(* Exact rationals standing for Python floats                              *)
(***************************************************************************)
Abs(x) == IF x < 0 THEN -x ELSE x

RECURSIVE Gcd(_, _)
Gcd(a, b) == IF b = 0 THEN a ELSE Gcd(b, a % b)

Rat(n, d) ==
    LET g == Gcd(Abs(n), Abs(d))
        s == IF d < 0 THEN -1 ELSE 1
    IN [num |-> (s * n) \div g, den |-> (s * d) \div g]

RatInt(n) == [num |-> n, den |-> 1]
RatAdd(p, q) == Rat(p.num * q.den + q.num * p.den, p.den * q.den)
RatDiv(p, q) == Rat(p.num * q.den, p.den * q.num)
RatLeq(p, q) == p.num * q.den <= q.num * p.den
RatMax(p, q) == IF RatLeq(p, q) THEN q ELSE p
RatMin(p, q) == IF RatLeq(p, q) THEN p ELSE q

(***************************************************************************)
(* Strings as sequences of characters                                      *)
(***************************************************************************)
IsSpace(c) == c = " "

RECURSIVE LStrip(_)
LStrip(s) == IF s # <<>> /\ IsSpace(Head(s)) THEN LStrip(Tail(s)) ELSE s

RECURSIVE RStrip(_)
RStrip(s) ==
    IF s # <<>> /\ IsSpace(s[Len(s)]) THEN RStrip(SubSeq(s, 1, Len(s) - 1)) ELSE s

\* str.strip()
Strip(s) == RStrip(LStrip(s))

\* str.startswith(prefix)
StartsWith(s, prefix) ==
    /\ Len(s) >= Len(prefix)
    /\ SubSeq(s, 1, Len(prefix)) = prefix

\* the media type tested without its separator
AudioPrefixNoSlash == <<"a", "u", "d", "i", "o">>

\* the prefix of audio_file.content_type.startswith('audio/')
AudioPrefix == <<"a", "u", "d", "i", "o", "/">>

\* UploadFile.content_type is Optional[str]: declared = FALSE stands for None
NoContentType == [declared |-> FALSE, value |-> <<>>]
Declared(s) == [declared |-> TRUE, value |-> s]

ContentTypes ==
    { NoContentType,
      Declared(<<"a", "u", "d", "i", "o", "/", "w", "a", "v">>),
      Declared(<<"t", "e", "x", "t", "/", "p", "l", "a", "i", "n">>),
      Declared(<<"a", "u", "d", "i", "o">>) }

(***************************************************************************)
(* Segments produced by the model capability                               *)
(***************************************************************************)
Seg(t, s, e, has, lp) ==
    [text |-> t, start |-> s, end |-> e, has_logprob |-> has, avg_logprob |-> lp]

SegPool ==
    { Seg(<<" ", "a">>, 0, 2, TRUE, -1),
      Seg(<<"b", " ">>, 2, 3, TRUE, -7),
      Seg(<<" ">>, 3, 4, TRUE, 2),
      Seg(<<"a", " ", "b">>, 1, 2, FALSE, 0),
      Seg(<<"a">>, 0, 1, TRUE, -3) }

ConcSegPool == { Seg(<<" ", "a">>, 0, 2, TRUE, -1) }

SeqsUpTo(S, n) == UNION { [1..k -> S] : k \in 0..n }

Streams == SeqsUpTo(SegPool, MaxSegs)
ConcStreams == SeqsUpTo(ConcSegPool, ConcMaxSegs)

\* getattr(segment, 'avg_logprob', 0.0)
GetAvgLogprob(segment) ==
    IF segment.has_logprob THEN segment.avg_logprob ELSE 0

(***************************************************************************)
(* State                                                                   *)
(***************************************************************************)
VARIABLES
    startup,              \* progress of startup_event: "pending", "ok", "failed"
    whisper_model,        \* the global model handle: None or WhisperModel
    health,               \* the last HealthResponse returned
    oracle,               \* the model capability: segment stream per upload
    fs,                   \* the temporary directory: name -> file
    pc,                   \* position of each request in its handler
    kind,                 \* which handler serves the request
    content_type,         \* audio_file.content_type
    temp_file,            \* temp_file.name of the open NamedTemporaryFile
    content,              \* bytes returned by await audio_file.read()
    temp_file_path,       \* local temp_file_path
    segments,             \* the lazy segment generator returned by transcribe
    pos,                  \* number of segments pulled from the generator
    transcript_segments,  \* local of transcribe_audio
    full_text,            \* local of transcribe_audio
    total_duration,       \* local of transcribe_audio
    text,                 \* local of transcribe_realtime
    confidence,           \* local of transcribe_realtime
    invoked,              \* calls of whisper_model.transcribe made by the request
    model_input,          \* the bytes the model was given by the request
    response              \* what the handler returned or raised

svcVars == <<startup, whisper_model, oracle>>
reqIn == <<kind, content_type>>
stageVars == <<temp_file, content, temp_file_path>>
streamVars == <<segments, pos, invoked, model_input>>
audioLocals == <<transcript_segments, full_text, total_duration>>
rtLocals == <<text, confidence>>
vars == <<startup, whisper_model, health, oracle, fs, pc, kind, content_type,
          temp_file, content, temp_file_path, segments, pos,
          transcript_segments, full_text, total_duration, text, confidence,
          invoked, model_input, response>>

NoFile == [exists |-> FALSE, owner |-> 0, data |-> 0]
NoContent == 0

\* the bytes uploaded with request r
Upload(r) == r

NoHealth == [status |-> "none", model_loaded |-> FALSE]

NoDetail == [template |-> "", content_type |-> <<>>, cause |-> ""]

NoResponse ==
    [status |-> 0, escaped |-> "", detail |-> NoDetail, text |-> <<>>,
     confidence |-> RatInt(0), duration |-> 0, segments |-> <<>>,
     is_final |-> FALSE]

\* raise HTTPException(status_code = code, detail = d)
HTTPException(code, d) == [NoResponse EXCEPT !.status = code, !.detail = d]

\* an exception that leaves the handler without being mapped
Escaped(exc) == [NoResponse EXCEPT !.escaped = exc]

(***************************************************************************)
(* Model lifecycle and health                                              *)
(***************************************************************************)
InitCommon ==
    /\ startup = "pending"
    /\ whisper_model = None
    /\ health = NoHealth
    /\ fs = [n \in Names |-> NoFile]
    /\ pc = [r \in Reqs |-> "idle"]
    /\ kind = [r \in Reqs |-> "none"]
    /\ content_type = [r \in Reqs |-> NoContentType]
    /\ temp_file = [r \in Reqs |-> NoName]
    /\ content = [r \in Reqs |-> NoContent]
    /\ temp_file_path = [r \in Reqs |-> NoName]
    /\ segments = [r \in Reqs |-> <<>>]
    /\ pos = [r \in Reqs |-> 0]
    /\ transcript_segments = [r \in Reqs |-> <<>>]
    /\ full_text = [r \in Reqs |-> <<>>]
    /\ total_duration = [r \in Reqs |-> 0]
    /\ text = [r \in Reqs |-> <<>>]
    /\ confidence = [r \in Reqs |-> 0]
    /\ invoked = [r \in Reqs |-> 0]
    /\ model_input = [r \in Reqs |-> NoContent]
    /\ response = [r \in Reqs |-> NoResponse]

\* concurrent requests whose uploads all transcribe to the same short stream
Init ==
    /\ InitCommon
    /\ oracle \in { [r \in Reqs |-> s] : s \in ConcStreams }

\* one request, every stream up to MaxSegs segments
InitAgg ==
    /\ InitCommon
    /\ oracle \in { [r \in Reqs |-> IF r = 1 THEN s ELSE <<>>] : s \in Streams }

\* initialize_whisper_model: loads = FALSE is WhisperModel(...) raising
initialize_whisper_model(loads) ==
    /\ startup = "pending"
    /\ whisper_model' = IF loads THEN WhisperModel ELSE whisper_model
    /\ startup' = IF loads THEN "ok" ELSE "failed"

startup_event ==
    /\ \E loads \in BOOLEAN : initialize_whisper_model(loads)
    /\ UNCHANGED <<health, oracle, fs, pc, reqIn, stageVars, streamVars,
                   audioLocals, rtLocals, response>>

\* a status that ignores model_loaded
HealthStatusAlwaysHealthy(model_loaded) == "healthy"

\* status="healthy" if model_loaded else "unhealthy"
HealthStatus(model_loaded) == IF model_loaded THEN "healthy" ELSE "unhealthy"

HealthResponse(w) ==
    LET model_loaded == w # None
    IN [status |-> HealthStatus(model_loaded), model_loaded |-> model_loaded]

health_check ==
    /\ health' = HealthResponse(whisper_model)
    /\ UNCHANGED <<svcVars, fs, pc, reqIn, stageVars, streamVars,
                   audioLocals, rtLocals, response>>

(***************************************************************************)
(* Request handlers                                                        *)
(***************************************************************************)
\* the availability test never firing
ModelNotLoadedNever(w) == FALSE

\* `if whisper_model is None`
ModelNotLoaded(w) == w = None

Finish(r, resp) ==
    /\ pc' = [pc EXCEPT ![r] = "done"]
    /\ response' = [response EXCEPT ![r] = resp]

Detail400(ct) ==
    [template |-> "Invalid file type: {}. Expected audio file.",
     content_type |-> ct.value, cause |-> ""]

Detail503(k) ==
    [NoDetail EXCEPT !.template =
        IF k = "audio" THEN "Whisper model not loaded. Check service health."
                       ELSE "Whisper model not loaded"]

\* the two `except Exception as e` clauses
Detail500(k, cause) ==
    [NoDetail EXCEPT !.template = IF k = "audio" THEN "Transcription failed: {}"
                                                 ELSE "{}",
                     !.cause = cause]

Raise500(r, cause) == Finish(r, HTTPException(500, Detail500(kind[r], cause)))

\* entry of transcribe_audio up to the try block
transcribe_audio(r, ct) ==
    /\ pc[r] = "idle"
    /\ kind' = [kind EXCEPT ![r] = "audio"]
    /\ content_type' = [content_type EXCEPT ![r] = ct]
    /\ IF ModelNotLoaded(whisper_model)
         THEN Finish(r, HTTPException(503, Detail503("audio")))
         ELSE IF ~ct.declared
           THEN Finish(r, Escaped("AttributeError"))
           ELSE IF ~StartsWith(ct.value, AudioPrefix)
             THEN Finish(r, HTTPException(400, Detail400(ct)))
             ELSE /\ pc' = [pc EXCEPT ![r] = "stage"]
                  /\ UNCHANGED response
    /\ UNCHANGED <<svcVars, health, fs, stageVars, streamVars, audioLocals,
                   rtLocals>>

\* entry of transcribe_realtime up to the try block; the handler never
\* reads audio_chunk.content_type
transcribe_realtime(r) ==
    /\ pc[r] = "idle"
    /\ kind' = [kind EXCEPT ![r] = "realtime"]
    /\ UNCHANGED content_type
    /\ IF ModelNotLoaded(whisper_model)
         THEN Finish(r, HTTPException(503, Detail503("realtime")))
         ELSE /\ pc' = [pc EXCEPT ![r] = "stage"]
              /\ UNCHANGED response
    /\ UNCHANGED <<svcVars, health, fs, stageVars, streamVars, audioLocals,
                   rtLocals>>

\* a name chosen without regard to the files that exist
TempNamesAny(f) == Names

\* names tempfile may hand out: it creates the file with O_EXCL
TempNames(f) == { n \in Names : ~f[n].exists }

\* tempfile.NamedTemporaryFile(delete=False, suffix=".wav")
NamedTemporaryFile(r) ==
    /\ pc[r] = "stage"
    /\ \E n \in TempNames(fs) :
         /\ fs' = [fs EXCEPT ![n] = [exists |-> TRUE, owner |-> r,
                                     data |-> NoContent]]
         /\ temp_file' = [temp_file EXCEPT ![r] = n]
    /\ pc' = [pc EXCEPT ![r] = "read"]
    /\ UNCHANGED <<svcVars, health, reqIn, content, temp_file_path,
                   streamVars, audioLocals, rtLocals, response>>

\* NamedTemporaryFile raising (no usable name, directory not writable)
NamedTemporaryFileFails(r) ==
    /\ pc[r] = "stage"
    /\ Raise500(r, "NamedTemporaryFile failed")
    /\ UNCHANGED <<svcVars, health, fs, reqIn, stageVars, streamVars,
                   audioLocals, rtLocals>>

\* content = await audio_file.read()
ReadUpload(r) ==
    /\ pc[r] = "read"
    /\ content' = [content EXCEPT ![r] = Upload(r)]
    /\ pc' = [pc EXCEPT ![r] = "write"]
    /\ UNCHANGED <<svcVars, health, fs, reqIn, temp_file, temp_file_path,
                   streamVars, audioLocals, rtLocals, response>>

ReadUploadFails(r) ==
    /\ pc[r] = "read"
    /\ Raise500(r, "read failed")
    /\ UNCHANGED <<svcVars, health, fs, reqIn, stageVars, streamVars,
                   audioLocals, rtLocals>>

\* temp_file.write(content); temp_file_path = temp_file.name; close
WriteUpload(r) ==
    /\ pc[r] = "write"
    /\ fs' = [fs EXCEPT ![temp_file[r]] =
                 [exists |-> TRUE, owner |-> @.owner, data |-> content[r]]]
    /\ temp_file_path' = [temp_file_path EXCEPT ![r] = temp_file[r]]
    /\ pc' = [pc EXCEPT ![r] = "transcribe"]
    /\ UNCHANGED <<svcVars, health, reqIn, temp_file, content, streamVars,
                   audioLocals, rtLocals, response>>

WriteUploadFails(r) ==
    /\ pc[r] = "write"
    /\ Raise500(r, "write failed")
    /\ UNCHANGED <<svcVars, health, fs, reqIn, stageVars, streamVars,
                   audioLocals, rtLocals>>

\* os.unlink placed right after the transcribe call, before the for loop
NextPcUnlinkFirst(p) ==
    CASE p = "transcribe" -> "unlink"
      [] p = "unlink" -> "iterate"
      [] p = "iterate" -> "respond"

\* statement order of the try block after staging:
\* transcribe, the for loop, os.unlink, the response
NextPc(p) ==
    CASE p = "transcribe" -> "iterate"
      [] p = "iterate" -> "unlink"
      [] p = "unlink" -> "respond"

\* segments, info = whisper_model.transcribe(temp_file_path, ...)
Transcribe(r) ==
    /\ pc[r] = "transcribe"
    /\ whisper_model # None
    /\ fs[temp_file_path[r]].exists
    /\ invoked' = [invoked EXCEPT ![r] = @ + 1]
    /\ model_input' = [model_input EXCEPT ![r] = fs[temp_file_path[r]].data]
    /\ segments' = [segments EXCEPT ![r] = oracle[r]]
    /\ pc' = [pc EXCEPT ![r] = NextPc("transcribe")]
    /\ UNCHANGED <<svcVars, health, fs, reqIn, stageVars, pos, audioLocals,
                   rtLocals, response>>

\* transcribe raising: a runtime error of the model, a handle that is
\* None, or a path that names no file
TranscribeFails(r) ==
    /\ pc[r] = "transcribe"
    /\ invoked' = [invoked EXCEPT ![r] =
                      IF whisper_model # None THEN @ + 1 ELSE @]
    /\ Raise500(r, "transcribe failed")
    /\ UNCHANGED <<svcVars, health, fs, reqIn, stageVars, segments, pos,
                   model_input, audioLocals, rtLocals>>

\* the loop body of transcribe_realtime without its break
AfterSegmentNoBreak(k) == "iterate"

\* where control goes after the body of `for segment in segments`
AfterSegment(k) == IF k = "realtime" THEN NextPc("iterate") ELSE "iterate"

\* one pass through the loop body of transcribe_audio
AudioSegment(r) ==
    /\ pc[r] = "iterate"
    /\ kind[r] = "audio"
    /\ pos[r] < Len(segments[r])
    /\ LET segment == segments[r][pos[r] + 1]
           segment_data == [start |-> segment.start, end |-> segment.end,
                            text |-> Strip(segment.text),
                            confidence |-> GetAvgLogprob(segment)]
       IN /\ transcript_segments' =
                [transcript_segments EXCEPT ![r] = Append(@, segment_data)]
          /\ full_text' =
                [full_text EXCEPT ![r] = @ \o Strip(segment.text) \o <<" ">>]
          /\ total_duration' =
                [total_duration EXCEPT ![r] =
                    IF segment.end > @ THEN segment.end ELSE @]
    /\ pos' = [pos EXCEPT ![r] = @ + 1]
    /\ pc' = [pc EXCEPT ![r] = AfterSegment("audio")]
    /\ UNCHANGED <<svcVars, health, fs, reqIn, stageVars, segments, invoked,
                   model_input, rtLocals, response>>

\* one pass through the loop body of transcribe_realtime
RealtimeSegment(r) ==
    /\ pc[r] = "iterate"
    /\ kind[r] = "realtime"
    /\ pos[r] < Len(segments[r])
    /\ LET segment == segments[r][pos[r] + 1]
       IN /\ text' = [text EXCEPT ![r] = @ \o Strip(segment.text) \o <<" ">>]
          /\ confidence' = [confidence EXCEPT ![r] = GetAvgLogprob(segment)]
    /\ pos' = [pos EXCEPT ![r] = @ + 1]
    /\ pc' = [pc EXCEPT ![r] = AfterSegment("realtime")]
    /\ UNCHANGED <<svcVars, health, fs, reqIn, stageVars, segments, invoked,
                   model_input, audioLocals, response>>

\* the generator is exhausted: the for loop ends
LoopEnd(r) ==
    /\ pc[r] = "iterate"
    /\ pos[r] = Len(segments[r])
    /\ pc' = [pc EXCEPT ![r] = NextPc("iterate")]
    /\ UNCHANGED <<svcVars, health, fs, reqIn, stageVars, streamVars,
                   audioLocals, rtLocals, response>>

\* the generator raises while the loop pulls the next segment
SegmentFails(r) ==
    /\ pc[r] = "iterate"
    /\ Raise500(r, "segment iteration failed")
    /\ UNCHANGED <<svcVars, health, fs, reqIn, stageVars, streamVars,
                   audioLocals, rtLocals>>

\* os.unlink(temp_file_path)
Unlink(r) ==
    /\ pc[r] = "unlink"
    /\ IF fs[temp_file_path[r]].exists
         THEN /\ fs' = [fs EXCEPT ![temp_file_path[r]] = NoFile]
              /\ pc' = [pc EXCEPT ![r] = NextPc("unlink")]
              /\ UNCHANGED response
         ELSE /\ Raise500(r, "unlink failed")
              /\ UNCHANGED fs
    /\ UNCHANGED <<svcVars, health, reqIn, stageVars, streamVars,
                   audioLocals, rtLocals>>

RECURSIVE SumConfidence(_)
\* sum(s.get('confidence', 0) for s in transcript_segments)
SumConfidence(ts) ==
    IF ts = <<>> THEN 0 ELSE Head(ts).confidence + SumConfidence(Tail(ts))

\* avg_confidence = sum(...) / len(transcript_segments) if transcript_segments else 0
AvgConfidence(ts) ==
    IF ts # <<>> THEN Rat(SumConfidence(ts), Len(ts)) ELSE RatInt(0)

\* max(0.0, min(1.0, (x + 5) / 5))
Normalize(x) ==
    RatMax(RatInt(0),
           RatMin(RatInt(1),
                  RatDiv(RatAdd(x, RatInt(LogprobOffset)), RatInt(LogprobScale))))

\* the affine map without the clamp
ConfidenceScoreUnclamped(avg_confidence) ==
    RatDiv(RatAdd(avg_confidence, RatInt(LogprobOffset)), RatInt(LogprobScale))

\* confidence_score of transcribe_audio
ConfidenceScore(avg_confidence) == Normalize(avg_confidence)

\* "confidence" of the dict transcribe_realtime returns
RealtimeConfidence(c) == Normalize(RatInt(c))

\* result = TranscriptionResponse(...); return result
AudioRespond(r) ==
    /\ pc[r] = "respond"
    /\ kind[r] = "audio"
    /\ LET avg_confidence == AvgConfidence(transcript_segments[r])
           confidence_score == ConfidenceScore(avg_confidence)
       IN Finish(r, [NoResponse EXCEPT
                        !.status = 200,
                        !.text = Strip(full_text[r]),
                        !.confidence = confidence_score,
                        !.duration = total_duration[r],
                        !.segments = transcript_segments[r]])
    /\ UNCHANGED <<svcVars, health, fs, reqIn, stageVars, streamVars,
                   audioLocals, rtLocals>>

\* TranscriptionResponse(...) rejecting its arguments (pydantic validation)
AudioRespondFails(r) ==
    /\ pc[r] = "respond"
    /\ kind[r] = "audio"
    /\ Raise500(r, "response validation failed")
    /\ UNCHANGED <<svcVars, health, fs, reqIn, stageVars, streamVars,
                   audioLocals, rtLocals>>

\* return {"text": ..., "confidence": ..., "is_final": True}
RealtimeRespond(r) ==
    /\ pc[r] = "respond"
    /\ kind[r] = "realtime"
    /\ Finish(r, [NoResponse EXCEPT
                     !.status = 200,
                     !.text = Strip(text[r]),
                     !.confidence = RealtimeConfidence(confidence[r]),
                     !.is_final = TRUE])
    /\ UNCHANGED <<svcVars, health, fs, reqIn, stageVars, streamVars,
                   audioLocals, rtLocals>>

(***************************************************************************)
(* Specifications                                                          *)
(***************************************************************************)
Step(r) ==
    \/ \E ct \in ContentTypes : transcribe_audio(r, ct)
    \/ transcribe_realtime(r)
    \/ NamedTemporaryFile(r)
    \/ NamedTemporaryFileFails(r)
    \/ ReadUpload(r)
    \/ ReadUploadFails(r)
    \/ WriteUpload(r)
    \/ WriteUploadFails(r)
    \/ Transcribe(r)
    \/ TranscribeFails(r)
    \/ AudioSegment(r)
    \/ RealtimeSegment(r)
    \/ LoopEnd(r)
    \/ SegmentFails(r)
    \/ Unlink(r)
    \/ AudioRespond(r)
    \/ AudioRespondFails(r)
    \/ RealtimeRespond(r)

\* Concurrent requests.  health_check reads whisper_model and writes only
\* its own response, so it is left to the sequential specification.
Next ==
    \/ startup_event
    \/ \E r \in Reqs : Step(r)

NextAgg ==
    \/ startup_event
    \/ health_check
    \/ Step(1)

\* concurrent requests over short streams
Spec == Init /\ [][Next]_vars

\* startup, health checks and one request over every stream of up to
\* MaxSegs segments
SpecAgg == InitAgg /\ [][NextAgg]_vars

TypeOK ==
    /\ startup \in {"pending", "ok", "failed"}
    /\ whisper_model \in {None, WhisperModel}
    /\ pc \in [Reqs -> {"idle", "stage", "read", "write", "transcribe",
                        "iterate", "unlink", "respond", "done"}]
    /\ kind \in [Reqs -> {"none", "audio", "realtime"}]
    /\ temp_file \in [Reqs -> Names \cup {NoName}]
    /\ temp_file_path \in [Reqs -> Names \cup {NoName}]
    /\ \A r \in Reqs : pos[r] \in 0..Len(segments[r])

(***************************************************************************)
(* Vocabulary of the properties, stated without the handlers' operators    *)
(***************************************************************************)
Done(r) == pc[r] = "done"
Succeeded(r) == Done(r) /\ response[r].status = 200

\* request r left the handler entry in this step
Enters(r) == pc[r] = "idle" /\ pc'[r] # "idle"

\* some file created by request r is on disk
OwnsFile(r) == \E n \in Names : fs[n].exists /\ fs[n].owner = r

\* request r has staged a file and has not reached the statement after unlink
Holding(r) == pc[r] \in {"read", "write", "transcribe", "iterate", "unlink"}

\* the string begins with "audio/"
BeginsWithAudioSlash(s) ==
    /\ Len(s) >= 6
    /\ s[1] = "a" /\ s[2] = "u" /\ s[3] = "d" /\ s[4] = "i" /\ s[5] = "o"
    /\ s[6] = "/"

\* log-probability of a segment of the model's stream, 0 when it has none
LogprobOf(seg) == IF seg.has_logprob THEN seg.avg_logprob ELSE 0

RECURSIVE SumLogprob(_)
SumLogprob(stream) ==
    IF stream = <<>> THEN 0
    ELSE LogprobOf(stream[1]) + SumLogprob(SubSeq(stream, 2, Len(stream)))

\* c = clamp((sum / n + 5) / 5, 0, 1) for n > 0, in integer arithmetic
IsClampedMean(c, sum, n) ==
    /\ c.den > 0
    /\ IF sum + 5 * n <= 0 THEN c.num = 0
       ELSE IF sum >= 0 THEN c.num = c.den
       ELSE c.num * 5 * n = c.den * (sum + 5 * n)

(***************************************************************************)
(* C1: for both handlers, whenever a temporary file was staged it no       *)
(* longer exists when the request completes, on success and on every       *)
(* failure path.                                                           *)
(***************************************************************************)
C1_NoLeakedFile == \A r \in Reqs : Done(r) => ~OwnsFile(r)

(***************************************************************************)
(* C2: when the model yields zero segments, transcribe_audio returns       *)
(* text "", confidence 0, duration 0 and no segments, and                  *)
(* transcribe_realtime returns confidence 0.                               *)
(***************************************************************************)
C2_EmptyStreamZero ==
    \A r \in Reqs :
        Succeeded(r) /\ oracle[r] = <<>> =>
            /\ response[r].confidence.num = 0
            /\ response[r].text = <<>>
            /\ kind[r] = "audio" =>
                   response[r].duration = 0 /\ response[r].segments = <<>>

(***************************************************************************)
(* C3: for every non-empty segment stream the confidence returned by       *)
(* transcribe_audio lies in [0,1] and equals                               *)
(* clamp((mean log-probability + 5) / 5, 0, 1), the mean taken over all    *)
(* segments returned, a segment without avg_logprob counting as 0.         *)
(***************************************************************************)
C3_Confidence ==
    \A r \in Reqs :
        Succeeded(r) /\ kind[r] = "audio" /\ oracle[r] # <<>> =>
            LET c == response[r].confidence
            IN /\ 0 <= c.num /\ c.num <= c.den
               /\ Len(response[r].segments) = Len(oracle[r])
               /\ IsClampedMean(c, SumLogprob(oracle[r]), Len(oracle[r]))

C3_Witness ==
    \E r \in Reqs :
        /\ Succeeded(r) /\ kind[r] = "audio" /\ Len(oracle[r]) >= 2
        /\ \E i \in 1..Len(oracle[r]) : ~oracle[r][i].has_logprob
        /\ 0 < response[r].confidence.num
        /\ response[r].confidence.num < response[r].confidence.den

(***************************************************************************)
(* C4: with the model loaded, a transcribe_audio request whose declared    *)
(* content type does not begin with "audio/" is rejected with HTTP 400     *)
(* naming the type, and that request never creates a temporary file,       *)
(* never reads the upload and never invokes the model.                     *)
(***************************************************************************)
C4_RejectNonAudio ==
    /\ [][\A r \in Reqs :
            ( /\ Enters(r) /\ kind'[r] = "audio" /\ whisper_model # None
              /\ content_type'[r].declared
              /\ ~BeginsWithAudioSlash(content_type'[r].value) )
            => /\ pc'[r] = "done"
               /\ response'[r].status = 400
               /\ response'[r].detail.content_type = content_type'[r].value
               /\ fs' = fs]_vars
    /\ [](\A r \in Reqs :
            response[r].status = 400 =>
                /\ Done(r)
                /\ temp_file[r] = NoName /\ ~OwnsFile(r)
                /\ content[r] = NoContent
                /\ invoked[r] = 0)

C4_Witness ==
    \E r \in Reqs :
        /\ Done(r) /\ response[r].status = 400 /\ whisper_model # None
        /\ content_type[r] = Declared(<<"t", "e", "x", "t", "/", "p", "l", "a", "i", "n">>)
        /\ \E q \in Reqs : Holding(q)

(***************************************************************************)
(* C5: while the model handle is unset, every call of either handler       *)
(* fails with HTTP 503 before any file is staged or inference attempted;   *)
(* no request sets the handle, and after a failed initialization it stays  *)
(* unset.                                                                  *)
(***************************************************************************)
C5_FailFast ==
    /\ [][\A r \in Reqs :
            Enters(r) /\ whisper_model = None
            => /\ pc'[r] = "done"
               /\ response'[r].status = 503
               /\ fs' = fs /\ temp_file' = temp_file /\ invoked' = invoked]_vars
    /\ [][whisper_model' # whisper_model => startup = "pending"]_vars
    /\ [][startup = "failed" => startup' = "failed"]_vars
    /\ [](startup = "failed" => whisper_model = None)
    /\ [](\A r \in Reqs :
            response[r].status = 503 =>
                /\ Done(r)
                /\ temp_file[r] = NoName /\ ~OwnsFile(r)
                /\ content[r] = NoContent
                /\ invoked[r] = 0)

C5_Witness ==
    /\ startup = "failed"
    /\ \E r, q \in Reqs :
        /\ kind[r] = "audio" /\ response[r].status = 503
        /\ kind[q] = "realtime" /\ response[q].status = 503

(***************************************************************************)
(* C6: health_check reports "healthy" exactly when model_loaded is true,   *)
(* and model_loaded is true exactly when the handle is set: unhealthy      *)
(* before initialization completes and after a failed one, healthy after   *)
(* a successful one; it never changes the handle and never fails.          *)
(***************************************************************************)
C6_Health ==
    /\ [][health' # health =>
            /\ health'.model_loaded <=> whisper_model # None
            /\ health'.status = "healthy" <=> health'.model_loaded
            /\ health'.status \in {"healthy", "unhealthy"}
            /\ whisper_model' = whisper_model]_vars
    /\ [](startup \in {"pending", "failed"} <=> whisper_model = None)
    /\ [](ENABLED health_check)

C6_Witness == startup = "ok" /\ health.status = "healthy"

(***************************************************************************)
(* C7: a successful transcribe_realtime response has is_final = true, its  *)
(* text is the trimmed text of the first segment only (empty without       *)
(* one), its confidence comes from the first segment's log-probability     *)
(* only, and no segment after the first is pulled from the stream.         *)
(***************************************************************************)
C7_FirstSegmentOnly ==
    \A r \in Reqs :
        Succeeded(r) /\ kind[r] = "realtime" =>
            /\ response[r].is_final
            /\ pos[r] <= 1
            /\ IF oracle[r] = <<>>
                 THEN response[r].text = <<>>
                 ELSE /\ response[r].text = Strip(oracle[r][1].text)
                      /\ IsClampedMean(response[r].confidence,
                                       LogprobOf(oracle[r][1]), 1)

C7_Witness ==
    \E r \in Reqs :
        /\ Succeeded(r) /\ kind[r] = "realtime"
        /\ Len(oracle[r]) >= 2 /\ pos[r] = 1
        /\ response[r].text # <<>>
        /\ oracle[r][2].text # oracle[r][1].text

(***************************************************************************)
(* C8: every failure of either handler, a missing content type included,   *)
(* is caught in the handler and leaves as one of the mapped responses      *)
(* 503, 400 or 500; no other exception escapes.                            *)
(***************************************************************************)
C8_NothingEscapes ==
    \A r \in Reqs :
        Done(r) =>
            /\ response[r].escaped = ""
            /\ response[r].status \in {200, 400, 500, 503}
            /\ response[r].status = 500 => response[r].detail.cause # ""

(***************************************************************************)
(* C9: concurrent requests stage to pairwise distinct temporary files,     *)
(* and a request writes, hands to the model and removes only the file it   *)
(* staged: no staged file is overwritten or removed by another request.    *)
(***************************************************************************)
C9_PrivateFiles ==
    /\ [](\A r, q \in Reqs :
            r # q /\ Holding(r) /\ Holding(q) => temp_file[r] # temp_file[q])
    /\ [](\A r \in Reqs :
            Holding(r) =>
                /\ fs[temp_file[r]].exists
                /\ fs[temp_file[r]].owner = r
                /\ fs[temp_file[r]].data =
                       IF pc[r] \in {"read", "write"} THEN NoContent
                                                      ELSE Upload(r))
    /\ [](\A r \in Reqs :
            pc[r] \in {"iterate", "unlink", "respond"} =>
                model_input[r] = Upload(r))
    /\ [][\A n \in Names :
            fs[n].exists /\ fs'[n] # fs[n] => pc'[fs[n].owner] # pc[fs[n].owner]]_vars

C9_Witness ==
    \E r, q \in Reqs :
        /\ r # q
        /\ kind[r] = "audio" /\ kind[q] = "realtime"
        /\ pc[r] = "iterate" /\ pc[q] = "iterate"

(***************************************************************************)
(* C10: within a request the staged file is removed only after the         *)
(* request has finished reading the segment stream; the file exists from   *)
(* the transcribe call to the last segment read, and a stream is iterated  *)
(* at most once.                                                           *)
(***************************************************************************)
C10_ReleaseAfterDrain ==
    /\ [](\A r \in Reqs :
            pc[r] = "iterate" =>
                /\ fs[temp_file_path[r]].exists
                /\ fs[temp_file_path[r]].owner = r)
    /\ [][\A r \in Reqs :
            pos'[r] # pos[r] =>
                /\ fs[temp_file_path[r]].exists
                /\ fs'[temp_file_path[r]].exists]_vars
    /\ [][\A r \in Reqs :
            ( /\ temp_file_path[r] # NoName
              /\ fs[temp_file_path[r]].exists
              /\ fs[temp_file_path[r]].owner = r
              /\ ~fs'[temp_file_path[r]].exists )
            => /\ invoked[r] = 1
               /\ pos'[r] = pos[r]
               /\ pos[r] = IF kind[r] = "audio" \/ segments[r] = <<>>
                             THEN Len(segments[r]) ELSE 1]_vars
    /\ [](\A r \in Reqs : invoked[r] <= 1 /\ pos[r] <= Len(segments[r]))

C10_Witness ==
    \E r \in Reqs :
        /\ kind[r] = "audio" /\ pc[r] = "respond"
        /\ pos[r] >= 1 /\ pos[r] = Len(segments[r])
        /\ ~fs[temp_file_path[r]].exists

====
